---- MODULE Spec2Model ----
(***************************************************************************)
(* Model of the directory scraping engine of kyabia                        *)
(* (internal/scraper/scraper.go): the controller goroutine "manage" that   *)
(* owns the registry of scrapes, the worker goroutine of every accepted    *)
(* scrape, the goroutine spawned for every stop request, the token         *)
(* semaphore and the video catalog the walker writes to.                   *)
(*                                                                         *)
(* Strings that are compared character-wise by the code (directory paths)  *)
(* are sequences of one-character strings; a file extension is one token.  *)
(* Unbuffered channel operations are rendezvous: the send and the receive  *)
(* are one step.  The controller handles one message per step.             *)
(***************************************************************************)
EXTENDS Integers, Sequences, FiniteSets, TLC

VARIABLES
    fsys,        \* the file system the scraper walks (an input, fixed by Init)
    managerUp,   \* Scraper.startChan/stopChan/statusChan # nil: manage is running
    scrapes,     \* the registry: local variable "scrapes" of manage
    sem,         \* number of tokens inside Scraper.queueSemaphore
    workers,     \* one worker goroutine per accepted start
    stoppers,    \* one goroutine per stop request handled by manage
    asyncPush,   \* the goroutines walkDir spawns on cancellation to send the status
    catalog,     \* the Videos table behind repos.VideoRepo
    stopLog,     \* per stop request: the scrapes that were accepted and not ended when it was made
    lastStatus,  \* what Scraper.Status/StatusAll has just returned to its caller
    ctl,         \* the channel fields of the Scraper as concurrent first calls of Start set them
    playlist,    \* the rows of PlaylistEntries that belong to the main playlist
    adders,      \* the calls of playlistService.AddMainEntry under way
    sessions,    \* the map of SessionRepo.control: session id -> session
    now,         \* time.Now(), in minutes
    made,        \* the number of sessions created so far
    gone,        \* the ids of the sessions that were deleted
    lastSession  \* what the last call of the session repository returned

vars == <<fsys, managerUp, scrapes, sem, workers, stoppers, asyncPush,
          catalog, stopLog, lastStatus, ctl, playlist, adders,
          sessions, now, made, gone, lastSession>>

playlistVars == <<playlist, adders>>

sessionVars == <<sessions, now, made, gone, lastSession>>

scraperVars == <<fsys, managerUp, scrapes, sem, workers, stoppers, asyncPush,
                 catalog, stopLog, lastStatus, ctl>>

-----------------------------------------------------------------------------
(* Bounds of the model *)

MaxScrapes == 2
MaxStops == 1
MaxQueueScrapes == 3
MaxStatusScrapes == 2
MaxWalkStops == 1
MaxOverlapScrapes == 2
MaxSkipScrapes == 2
MaxMergeScrapes == 1
MaxTokenStops == 1
MaxRejectScrapes == 2
MaxCallers == 2
MaxWishes == 3
MaxSessions == 2
MaxNow == 4
SessionLife == 2

-----------------------------------------------------------------------------
(* Constants of the program *)

StatusQueued == "queued"
StatusRunning == "running"
StatusFinished == "finished"
StatusFailed == "failed"
StatusCancelled == "cancelled"

NoErr == "nil"
ErrAlreadyQueued == "a scraping operation is already queued for this directory"
ErrEntityNotExisting == "cannot update: Entity does not exist"

SemCapacity == 2

EmptyStr == <<>>

-----------------------------------------------------------------------------
(* Paths *)

PathA == <<"/", "a">>
PathAB == <<"/", "a", "/", "b">>
PathAX == <<"/", "a", "x">>
PathC == <<"/", "c">>

\* strings.Contains(s, substr)
Contains(s, substr) ==
    \E i \in 0..(Len(s) - Len(substr)) : SubSeq(s, i + 1, i + Len(substr)) = substr

\* path.Join(dir, name) for a clean dir and a plain name
Join(dir, name) == dir \o <<"/">> \o name

\* filepath.Base(fileName): what follows the last separator
Base(fileName) ==
    LET seps == {i \in 1..Len(fileName) : fileName[i] = "/"}
        last == IF seps = {} THEN 0 ELSE CHOOSE i \in seps : \A j \in seps : j <= i
    IN SubSeq(fileName, last + 1, Len(fileName))

\* path.Ext(fileName): the extension token that ends the name
Ext(fileName) ==
    IF Len(fileName) > 0 /\ fileName[Len(fileName)] \in {".mp4", ".txt"}
    THEN fileName[Len(fileName)]
    ELSE ""

\* mime.TypeByExtension
TypeByExtension(ext) ==
    CASE ext = ".mp4" -> "video/mp4"
      [] ext = ".txt" -> "text/plain"
      [] OTHER -> ""

\* strings.HasPrefix(mime, "video/")
IsVideoMime(m) == m \in {"video/mp4"}

-----------------------------------------------------------------------------
(* Videos and the catalog (models.Video, repos.VideoRepo on the Videos table) *)

\* The zero value of models.Video (CreatedAt/UpdatedAt are left out: the
\* scraper never reads them and the repository sets them itself)
EmptyVideo ==
    [SHA512 |-> "", Title |-> "", Artist |-> "", Language |-> "",
     RelatedMedium |-> "", MediumDetail |-> "", Description |-> "",
     Duration |-> 0, Identifier |-> "", Filename |-> EmptyStr,
     Width |-> 0, Height |-> 0, VideoFormat |-> "", VideoBitrate |-> 0,
     AudioFormat |-> "", AudioBitrate |-> 0, NumPlayed |-> 0, NumRequested |-> 0]

\* A merge of strings that prefers the second value
mergeStringSecond(first, second) == IF second = "" THEN first ELSE second

mergeString(first, second) == IF first = "" THEN second ELSE first

mergeInt(first, second) == IF first = 0 THEN second ELSE first

mergeDuration(first, second) == IF first = 0 THEN second ELSE first

\* mergeVideos builds a new models.Video: every field the literal does not
\* name (NumPlayed, NumRequested) has its zero value
mergeVideos(first, second) ==
    [EmptyVideo EXCEPT
        !.SHA512 = first.SHA512,
        !.Title = mergeString(first.Title, second.Title),
        !.Artist = mergeString(first.Artist, second.Artist),
        !.Language = mergeString(first.Language, second.Language),
        !.RelatedMedium = mergeString(first.RelatedMedium, second.RelatedMedium),
        !.MediumDetail = mergeString(first.MediumDetail, second.MediumDetail),
        !.Description = mergeString(first.Description, second.Description),
        !.Duration = mergeDuration(first.Duration, second.Duration),
        !.Identifier = mergeString(first.Identifier, second.Identifier),
        !.Filename = second.Filename,
        !.Width = mergeInt(first.Width, second.Width),
        !.Height = mergeInt(first.Height, second.Height),
        !.VideoFormat = mergeString(first.VideoFormat, second.VideoFormat),
        !.VideoBitrate = mergeInt(first.VideoBitrate, second.VideoBitrate),
        !.AudioFormat = mergeString(first.AudioFormat, second.AudioFormat),
        !.AudioBitrate = mergeInt(first.AudioBitrate, second.AudioBitrate)]

\* VideoRepo.GetByID: the row with that sha512, or nil with ErrEntityNotExisting
RepoHas(cat, id) == id \in DOMAIN cat

\* VideoRepo.Create: INSERT; numPlayed and numRequested are written as 0; the
\* primary key sha512 rejects a second row with the same hash
RepoCreateErr(cat, v) == v.SHA512 \in DOMAIN cat

RepoCreate(cat, v) ==
    IF RepoCreateErr(cat, v)
    THEN cat
    ELSE [h \in DOMAIN cat \cup {v.SHA512} |->
            IF h = v.SHA512 THEN [v EXCEPT !.NumPlayed = 0, !.NumRequested = 0]
            ELSE cat[h]]

\* VideoRepo.Update: UPDATE ... SET every column, numPlayed and numRequested
\* included, from v; no row affected is ErrEntityNotExisting
RepoUpdateErr(cat, v) == v.SHA512 \notin DOMAIN cat

RepoUpdate(cat, v) ==
    IF RepoUpdateErr(cat, v) THEN cat ELSE [cat EXCEPT ![v.SHA512] = v]

-----------------------------------------------------------------------------
(* The file system and what the scraping functions extract from its files *)

FileG == <<"g", ".mp4">>
FileN == <<"n", ".mp4">>
FileE == <<"e", ".mp4">>
FileT == <<"t", ".txt">>
\* A file whose whole name is its extension: ".mp4"
FileDot == <<".mp4">>

\* File names the file name scrapers are made for, and one both patterns
\* match: its second pattern group "title" is a blank
FileLong == <<"12_de_Artist_Title_OP_Naruto", ".mp4">>
FileShort == <<"12_Naruto_Title (OP)", ".mp4">>
FileOdd == <<"12_a_ (c_d)", ".mp4">>

DirEntry(name) == [name |-> name, isDir |-> TRUE]
FileEntry(name) == [name |-> name, isDir |-> FALSE]

\* The directories of file system fs: path -> entries in os.ReadDir order
\* (sorted by name).  A path that is no key does not exist.
Tree(fs) ==
    CASE fs \in {"media", "full", "bare", "twins"} ->
            (PathA :> <<DirEntry(<<"b">>)>>) @@
            (PathAB :> <<FileEntry(FileG)>>) @@
            (PathAX :> <<FileEntry(FileN)>>)
      [] fs = "dot" ->
            (PathA :> <<DirEntry(<<"b">>)>>) @@
            (PathAB :> <<FileEntry(FileDot)>>) @@
            (PathAX :> <<FileEntry(FileN)>>)
      [] fs = "names" ->
            (PathA :> <<DirEntry(<<"b">>)>>) @@
            (PathAB :> <<FileEntry(FileLong), FileEntry(FileOdd)>>) @@
            (PathAX :> <<FileEntry(FileShort)>>)
      [] fs = "deep" ->
            \* /a/e.mp4 is no video the scraping functions can read, /a/m is
            \* a directory that cannot be read
            (PathA :> <<DirEntry(<<"b">>), FileEntry(FileE), DirEntry(<<"m">>),
                        FileEntry(FileN), FileEntry(FileT)>>) @@
            (PathAB :> <<FileEntry(FileG)>>)

\* os.Stat + os.ReadDir of walkDir: TRUE when the directory cannot be walked
DirError(fs, dir) == dir \notin DOMAIN Tree(fs)

ReadDir(fs, dir) == Tree(fs)[dir]

\* strings.TrimSpace on the strings of the model
TrimSpace(str) ==
    CASE str = " " -> ""
      [] str = "Title " -> "Title"
      [] str = " (c" -> "(c"
      [] OTHER -> str

\* language.Parse(val): the tag of a language code, "" when val is none
ParseLanguage(val) == IF val \in {"de"} THEN val ELSE ""

\* The field maps of the presets NewDefault uses
PresetLong ==
    [Identifier |-> 1, Language |-> 2, Artist |-> 3, Title |-> 4, MediumDetail |-> 5,
     RelatedMedium |-> 6]

PresetShort ==
    [Identifier |-> 1, Artist |-> 2, Title |-> 3, MediumDetail |-> 5, RelatedMedium |-> 2]

\* reg.FindStringSubmatch(name) for the regular expression of the preset: the
\* capture groups 1, 2, ... of a match ("" for a group that took no part),
\* << >> when the name does not match
FindStringSubmatch(preset, name) ==
    CASE preset = PresetLong /\ name = FileLong ->
            <<"12", "de", "Artist", "Title", "OP", "Naruto", "", "">>
      [] preset = PresetLong /\ name = FileOdd ->
            <<"12", "a", " (c", "d)", "", "", "", "">>
      [] preset = PresetShort /\ name = FileShort ->
            <<"12", "Naruto", "Title ", "(OP)", "OP">>
      [] preset = PresetShort /\ name = FileOdd ->
            <<"12", "a", " ", "(c_d)", "c_d">>
      [] OTHER -> << >>

\* The function MakeFileNameScraper returns: on a match every field of the
\* map gets the trimmed text of its group; the language only when it parses
FileNameScraper(preset, fileName, vid) ==
    LET matches == FindStringSubmatch(preset, Base(fileName))
    IN IF matches = << >>
       THEN vid
       ELSE [f \in DOMAIN vid |->
               IF f \in DOMAIN preset /\ preset[f] <= Len(matches)
               THEN IF f = "Language"
                    THEN IF ParseLanguage(TrimSpace(matches[preset[f]])) # ""
                         THEN ParseLanguage(TrimSpace(matches[preset[f]]))
                         ELSE vid[f]
                    ELSE TrimSpace(matches[preset[f]])
               ELSE vid[f]]

\* ScrapeSHA512: the hash of the file's content
ScrapeSHA512(fileName, vid) ==
    [vid EXCEPT !.SHA512 = CASE Base(fileName) = FileLong -> "h5"
                             [] Base(fileName) = FileShort -> "h6"
                             [] OTHER -> "h7"]

\* ScrapeFFProbe: duration and stream data, no text field
ScrapeFFProbe(fileName, vid) ==
    [vid EXCEPT !.Duration = 90, !.Width = 640, !.Height = 480, !.VideoFormat = "h264",
                !.AudioFormat = "aac"]

\* The scraping functions of NewDefault, in their order
DefaultFns == <<"ScrapeSHA512", "ScrapeFFProbe", "ID_Language_Artist_Title_Type_Anime",
                "ID_Anime_Title (Type)">>

ApplyFn(fn, fileName, vid) ==
    CASE fn = "ScrapeSHA512" -> ScrapeSHA512(fileName, vid)
      [] fn = "ScrapeFFProbe" -> ScrapeFFProbe(fileName, vid)
      [] fn = "ID_Language_Artist_Title_Type_Anime" -> FileNameScraper(PresetLong, fileName, vid)
      [] fn = "ID_Anime_Title (Type)" -> FileNameScraper(PresetShort, fileName, vid)

\* Scrape.file, the loop over scr.fns: the video after the first n functions
RECURSIVE RunFns(_, _)
RunFns(n, fileName) ==
    IF n = 0
    THEN [EmptyVideo EXCEPT !.Filename = fileName]
    ELSE ApplyFn(DefaultFns[n], fileName, RunFns(n - 1, fileName))

\* The outcome of running Scrape.fns on a file: err, or the fields they set
Extracted(fs, fileName) ==
    CASE fs \in {"media", "deep"} /\ fileName = Join(PathAB, FileG) ->
            [err |-> FALSE,
             vid |-> [EmptyVideo EXCEPT !.SHA512 = "h1", !.Title = "Extracted Name",
                                          !.Artist = "artist", !.Duration = 200,
                                          !.Filename = fileName]]
      [] fs = "full" /\ fileName = Join(PathAB, FileG) ->
            [err |-> FALSE,
             vid |-> [SHA512 |-> "h1", Title |-> "t2", Artist |-> "ar2", Language |-> "l2",
                      RelatedMedium |-> "r2", MediumDetail |-> "m2", Description |-> "d2",
                      Duration |-> 200, Identifier |-> "i2", Filename |-> fileName,
                      Width |-> 1280, Height |-> 720, VideoFormat |-> "vf2",
                      VideoBitrate |-> 2000, AudioFormat |-> "af2", AudioBitrate |-> 192,
                      NumPlayed |-> 0, NumRequested |-> 0]]
      [] fs = "bare" /\ fileName = Join(PathAB, FileG) ->
            [err |-> FALSE,
             vid |-> [EmptyVideo EXCEPT !.SHA512 = "h1", !.Filename = fileName]]
      [] fs = "dot" /\ fileName = Join(PathAB, FileDot) ->
            \* a video without tags: the functions find the hash only
            [err |-> FALSE,
             vid |-> [EmptyVideo EXCEPT !.SHA512 = "h4", !.Filename = fileName]]
      [] (fs \in {"media", "dot"} /\ fileName = Join(PathAX, FileN))
            \/ (fs = "deep" /\ fileName = Join(PathA, FileN)) ->
            [err |-> FALSE,
             vid |-> [EmptyVideo EXCEPT !.SHA512 = "h2", !.Duration = 100,
                                          !.Filename = fileName]]
      [] fs = "twins" /\ fileName \in {Join(PathAB, FileG), Join(PathAX, FileN)} ->
            \* two copies of one video: the same hash under both names
            [err |-> FALSE,
             vid |-> [EmptyVideo EXCEPT !.SHA512 = "h3", !.Duration = 300,
                                          !.Filename = fileName]]
      [] fs = "names" -> [err |-> FALSE, vid |-> RunFns(Len(DefaultFns), fileName)]
      [] OTHER -> [err |-> TRUE, vid |-> EmptyVideo]

\* The catalog before the first scrape: file g was scraped before (under
\* another name), renamed by hand, played and requested
InitialCatalog(fs) ==
    CASE fs \in {"media", "deep"} ->
            ("h1" :> [EmptyVideo EXCEPT !.SHA512 = "h1", !.Title = "Custom Name",
                                        !.Filename = <<"/", "o", "/", "g", ".mp4">>,
                                        !.NumPlayed = 2, !.NumRequested = 1])
      [] fs \in {"twins", "dot", "names"} -> [h \in {} |-> EmptyVideo]

-----------------------------------------------------------------------------
(* Scrapes *)

ErrRootDir == "directory does not exist or cannot be accessed"

\* The Scrape value startScraping builds; stopChan is the channel made for
\* it, named by the number of the worker that reads it
NewScrape(rootDir, stop) ==
    [Status |-> StatusQueued, RootDir |-> rootDir, CurrentDir |-> EmptyStr,
     CurrentFile |-> EmptyStr, NumFiles |-> 0, NumNewFiles |-> 0,
     NumUpdatedFiles |-> 0, Err |-> NoErr, stopChan |-> stop]

\* scrapeRunning(runningScrapes, newRootDir)
scrapeRunning(runningScrapes, newRootDir) ==
    \E k \in DOMAIN runningScrapes :
        /\ runningScrapes[k].Status \in {StatusRunning, StatusQueued}
        /\ Contains(newRootDir, runningScrapes[k].RootDir)

\* scrapes[key] = value on the registry map
MapPut(m, key, value) ==
    [k \in DOMAIN m \cup {key} |-> IF k = key THEN value ELSE m[k]]

NoMap == [k \in {} |-> 0]

-----------------------------------------------------------------------------
(* The worker goroutine of startScraping and the walk it runs *)

WorkerIds == 1..Len(workers)

NewWorker(scr) ==
    [scr |-> scr, pc |-> "queued", stack |-> << >>, vid |-> << >>,
     exists |-> FALSE, asyncStops |-> 0]

\* The frame of the walkDir call that is running
Top(wk) == wk.stack[Len(wk.stack)]

\* A worker that records the error walkDir returns without marking the
\* scrape failed
PostWalkErrNotFailed(wk, err) ==
    LET cleared == [wk.scr EXCEPT !.CurrentDir = EmptyStr, !.CurrentFile = EmptyStr,
                                  !.Err = err]
        ended == IF cleared.Status # StatusCancelled
                 THEN [cleared EXCEPT !.Status = StatusFinished]
                 ELSE cleared
    IN [wk EXCEPT !.scr = ended, !.pc = "release", !.stack = << >>]

\* A worker that takes no notice of the error walkDir returns
PostWalkErrIgnored(wk, err) ==
    LET cleared == [wk.scr EXCEPT !.CurrentDir = EmptyStr, !.CurrentFile = EmptyStr]
        ended == IF cleared.Status # StatusCancelled
                 THEN [cleared EXCEPT !.Status = StatusFinished]
                 ELSE cleared
    IN [wk EXCEPT !.scr = ended, !.pc = "release", !.stack = << >>]

\* startScraping after walkDir has returned err: the status the scrape ends with
PostWalk(wk, err) ==
    LET cleared == [wk.scr EXCEPT !.CurrentDir = EmptyStr, !.CurrentFile = EmptyStr]
        ended == IF err # NoErr
                 THEN [cleared EXCEPT !.Status = StatusFailed, !.Err = err]
                 ELSE IF cleared.Status # StatusCancelled
                      THEN [cleared EXCEPT !.Status = StatusFinished]
                      ELSE cleared
    IN [wk EXCEPT !.scr = ended, !.pc = "release", !.stack = << >>]

\* walkDir: the for loop goes on with the next entry of the running call
NextEntry(wk) ==
    [wk EXCEPT !.stack[Len(wk.stack)].idx = @ + 1, !.pc = "walk"]

\* walkDir returns nil: back in the caller, which is walkDir (an error would
\* only be logged there) or startScraping
ReturnNil(wk) ==
    IF Len(wk.stack) = 1
    THEN PostWalk(wk, NoErr)
    ELSE NextEntry([wk EXCEPT !.stack = SubSeq(wk.stack, 1, Len(wk.stack) - 1)])

\* A walk that gives up the whole scrape at a subdirectory it cannot read
EnterDirStrict(fs, wk) ==
    IF DirError(fs, wk.scr.CurrentDir)
    THEN PostWalk(wk, ErrRootDir)
    ELSE [wk EXCEPT !.stack = Append(wk.stack, [dir |-> wk.scr.CurrentDir, idx |-> 1]),
                    !.pc = "walk"]

\* walkDir is called on scr.CurrentDir: os.Stat and os.ReadDir
EnterDir(fs, wk) ==
    IF DirError(fs, wk.scr.CurrentDir)
    THEN IF Len(wk.stack) = 0
         THEN PostWalk(wk, ErrRootDir)
         ELSE NextEntry(wk)
    ELSE [wk EXCEPT !.stack = Append(wk.stack, [dir |-> wk.scr.CurrentDir, idx |-> 1]),
                    !.pc = "walk"]

\* A semaphore that lets one scrape too many through
CanTakeTokenOneMore(tokens) == tokens < SemCapacity + 1

\* "s.queueSemaphore <- 1" goes through while the channel has room
CanTakeToken(tokens) == tokens < SemCapacity

\* The worker takes a token, then marks its scrape running
TakeToken(w) ==
    /\ workers[w].pc = "queued"
    /\ CanTakeToken(sem)
    /\ sem' = sem + 1
    /\ workers' = [workers EXCEPT ![w].scr.Status = StatusRunning,
                                  ![w].scr.CurrentDir = workers[w].scr.RootDir,
                                  ![w].pc = "pushRunning"]
    /\ UNCHANGED <<fsys, managerUp, scrapes, stoppers, asyncPush, catalog>>

\* What the worker does after manage has taken the status it sent
AfterPush(fs, wk) ==
    CASE wk.pc = "pushRunning" -> EnterDir(fs, wk)
      [] wk.pc = "pushDir" -> EnterDir(fs, wk)
      [] wk.pc = "pushFile" -> [wk EXCEPT !.pc = "scrape"]
      [] wk.pc = "pushCount" -> NextEntry(wk)
      [] wk.pc = "pushFinal" -> [wk EXCEPT !.pc = "done"]

\* A manage that takes no status while it hands a stop signal to a worker
SendStatusUnlessStopping(w) ==
    /\ workers[w].pc \in {"pushRunning", "pushDir", "pushFile", "pushCount", "pushFinal"}
    /\ \A s \in 1..Len(stoppers) : stoppers[s].pc # "sending"
    /\ scrapes' = MapPut(scrapes, workers[w].scr.RootDir, workers[w].scr)
    /\ workers' = [workers EXCEPT ![w] = AfterPush(fsys, workers[w])]
    /\ UNCHANGED <<fsys, managerUp, sem, stoppers, asyncPush, catalog>>

\* "statusChan <- scr" of the worker meets "case s := <-status" of manage
SendStatus(w) ==
    /\ workers[w].pc \in {"pushRunning", "pushDir", "pushFile", "pushCount", "pushFinal"}
    /\ scrapes' = MapPut(scrapes, workers[w].scr.RootDir, workers[w].scr)
    /\ workers' = [workers EXCEPT ![w] = AfterPush(fsys, workers[w])]
    /\ UNCHANGED <<fsys, managerUp, sem, stoppers, asyncPush, catalog>>

\* The goroutines blocked in "stopChan <- true" on the channel of worker w:
\* stop goroutines of manage (their number) and, as 0, one of Scrape.Stop
StopSenders(w) ==
    {s \in 1..Len(stoppers) : stoppers[s].pc = "sending" /\ stoppers[s].target = w}
        \cup (IF workers[w].asyncStops > 0 THEN {0} ELSE {})

\* The send of sender on the stop channel of worker w has been received
Unblock(w, sender, wks) ==
    IF sender = 0
    THEN [wks EXCEPT ![w].asyncStops = @ - 1]
    ELSE wks

Unblocked(sender, stps) ==
    IF sender = 0
    THEN stps
    ELSE [stps EXCEPT ![sender].pc = IF stps[sender].rootDir = EmptyStr
                                     THEN "iter" ELSE "done",
                      ![sender].delivered = @ \cup {stps[sender].target}]

\* walkDir, "case <-stop" before an entry: the scrape is marked cancelled, a
\* goroutine is left behind to send that status, and the call returns nil
WalkStop(w) ==
    /\ workers[w].pc = "walk"
    /\ Top(workers[w]).idx <= Len(ReadDir(fsys, Top(workers[w]).dir))
    /\ \E sender \in StopSenders(w) :
        LET cancelled == [workers[w] EXCEPT !.scr.Status = StatusCancelled,
                                            !.scr.CurrentDir = EmptyStr,
                                            !.scr.CurrentFile = EmptyStr]
        IN /\ asyncPush' = Append(asyncPush, [from |-> w, read |-> FALSE, val |-> cancelled.scr])
           /\ workers' = Unblock(w, sender, [workers EXCEPT ![w] = ReturnNil(cancelled)])
           /\ stoppers' = Unblocked(sender, stoppers)
    /\ UNCHANGED <<fsys, managerUp, scrapes, sem, catalog>>

\* walkDir, "default" before an entry: a directory is entered, a video file
\* becomes the current file, any other file is passed over
VisitEntry(fs, wk) ==
    LET file == ReadDir(fs, Top(wk).dir)[Top(wk).idx]
        fileName == Join(Top(wk).dir, file.name)
    IN IF file.isDir
       THEN [wk EXCEPT !.scr.CurrentDir = fileName, !.scr.CurrentFile = EmptyStr,
                       !.pc = "pushDir"]
       ELSE IF IsVideoMime(TypeByExtension(Ext(fileName)))
            THEN [wk EXCEPT !.scr.CurrentFile = fileName, !.pc = "pushFile"]
            ELSE NextEntry(wk)

WalkEntry(w) ==
    /\ workers[w].pc = "walk"
    /\ Top(workers[w]).idx <= Len(ReadDir(fsys, Top(workers[w]).dir))
    /\ StopSenders(w) = {}
    /\ workers' = [workers EXCEPT ![w] = VisitEntry(fsys, workers[w])]
    /\ UNCHANGED <<fsys, managerUp, scrapes, sem, stoppers, asyncPush, catalog>>

\* walkDir after the last entry: a waiting stop request is taken off the
\* channel and dropped, then the call returns nil
WalkEnd(w) ==
    /\ workers[w].pc = "walk"
    /\ Top(workers[w]).idx > Len(ReadDir(fsys, Top(workers[w]).dir))
    /\ \/ /\ StopSenders(w) = {}
          /\ workers' = [workers EXCEPT ![w] = ReturnNil(workers[w])]
          /\ UNCHANGED stoppers
       \/ \E sender \in StopSenders(w) :
            /\ workers' = Unblock(w, sender, [workers EXCEPT ![w] = ReturnNil(workers[w])])
            /\ stoppers' = Unblocked(sender, stoppers)
    /\ UNCHANGED <<fsys, managerUp, scrapes, sem, asyncPush, catalog>>

\* The title Scrape.file gives a video without one: the base name with the
\* extension removed (file names of the model are one token and an extension)
TitleFromName(fileName) ==
    LET fname == Base(fileName)
        stem == IF Ext(fname) = "" THEN fname ELSE SubSeq(fname, 1, Len(fname) - 1)
    IN IF stem = << >> THEN "" ELSE stem[1]

\* strings.TrimSpace(title) == ""
IsBlank(title) == title \in {"", " "}

\* Scrape.file up to the lookup: the scraping functions run, a video without
\* hash is refused, a missing title is filled in, the catalog is asked for the
\* hash and an existing entry is merged.  err: the file is skipped.
Scraped(fs, cat, fileName) ==
    LET ex == Extracted(fs, fileName)
        titled == IF IsBlank(ex.vid.Title)
                  THEN [ex.vid EXCEPT !.Title = TitleFromName(ex.vid.Filename)]
                  ELSE ex.vid
    IN IF ex.err \/ ex.vid.SHA512 = ""
       THEN [err |-> TRUE, exists |-> FALSE, vid |-> EmptyVideo]
       ELSE IF RepoHas(cat, titled.SHA512)
            THEN [err |-> FALSE, exists |-> TRUE, vid |-> mergeVideos(cat[titled.SHA512], titled)]
            ELSE [err |-> FALSE, exists |-> FALSE, vid |-> titled]

ScrapeFile(w) ==
    /\ workers[w].pc = "scrape"
    /\ LET r == Scraped(fsys, catalog, workers[w].scr.CurrentFile)
       IN workers' = [workers EXCEPT ![w] =
              IF r.err
              THEN NextEntry(workers[w])
              ELSE [workers[w] EXCEPT !.vid = <<r.vid>>, !.exists = r.exists, !.pc = "store"]]
    /\ UNCHANGED <<fsys, managerUp, scrapes, sem, stoppers, asyncPush, catalog>>

\* A scrape that counts a file as new or updated before it knows whether the
\* write went well
StoredCountedFirst(cat, wk) ==
    LET err == IF wk.exists THEN RepoUpdateErr(cat, wk.vid[1]) ELSE RepoCreateErr(cat, wk.vid[1])
        counted == IF wk.exists
                   THEN [wk EXCEPT !.scr.NumUpdatedFiles = @ + 1]
                   ELSE [wk EXCEPT !.scr.NumNewFiles = @ + 1]
    IN IF err
       THEN NextEntry([counted EXCEPT !.vid = << >>, !.exists = FALSE])
       ELSE [counted EXCEPT !.scr.NumFiles = @ + 1, !.pc = "pushCount",
                            !.vid = << >>, !.exists = FALSE]

\* A walk that counts an updated file as scraped but not as updated
StoredUpdateUncounted(cat, wk) ==
    LET err == IF wk.exists THEN RepoUpdateErr(cat, wk.vid[1]) ELSE RepoCreateErr(cat, wk.vid[1])
        counted == IF wk.exists
                   THEN wk
                   ELSE [wk EXCEPT !.scr.NumNewFiles = @ + 1]
    IN IF err
       THEN NextEntry([wk EXCEPT !.vid = << >>, !.exists = FALSE])
       ELSE [counted EXCEPT !.scr.NumFiles = @ + 1, !.pc = "pushCount",
                            !.vid = << >>, !.exists = FALSE]

\* Scrape.file from the write on, and walkDir counting the file when the
\* write went well
Stored(cat, wk) ==
    LET err == IF wk.exists THEN RepoUpdateErr(cat, wk.vid[1]) ELSE RepoCreateErr(cat, wk.vid[1])
        counted == IF wk.exists
                   THEN [wk EXCEPT !.scr.NumUpdatedFiles = @ + 1]
                   ELSE [wk EXCEPT !.scr.NumNewFiles = @ + 1]
    IN IF err
       THEN NextEntry([wk EXCEPT !.vid = << >>, !.exists = FALSE])
       ELSE [counted EXCEPT !.scr.NumFiles = @ + 1, !.pc = "pushCount",
                            !.vid = << >>, !.exists = FALSE]

StoreFile(w) ==
    /\ workers[w].pc = "store"
    /\ catalog' = IF workers[w].exists
                  THEN RepoUpdate(catalog, workers[w].vid[1])
                  ELSE RepoCreate(catalog, workers[w].vid[1])
    /\ workers' = [workers EXCEPT ![w] = Stored(catalog, workers[w])]
    /\ UNCHANGED <<fsys, managerUp, scrapes, sem, stoppers, asyncPush>>

\* A worker that keeps its token when it ends
ReleaseTokenKept(w) ==
    /\ workers[w].pc = "release"
    /\ workers' = [workers EXCEPT ![w].pc = "pushFinal"]
    /\ UNCHANGED <<fsys, managerUp, scrapes, sem, stoppers, asyncPush, catalog>>

\* A worker that keeps its token when its scrape has failed
ReleaseTokenUnlessFailed(w) ==
    /\ workers[w].pc = "release"
    /\ sem' = IF workers[w].scr.Status = StatusFailed THEN sem ELSE sem - 1
    /\ workers' = [workers EXCEPT ![w].pc = "pushFinal"]
    /\ UNCHANGED <<fsys, managerUp, scrapes, stoppers, asyncPush, catalog>>

\* "<-s.queueSemaphore": the worker gives its token back
ReleaseToken(w) ==
    /\ workers[w].pc = "release"
    /\ sem' = sem - 1
    /\ workers' = [workers EXCEPT ![w].pc = "pushFinal"]
    /\ UNCHANGED <<fsys, managerUp, scrapes, stoppers, asyncPush, catalog>>

\* The goroutine walkDir left behind on cancellation evaluates "*scr", the
\* scrape of its worker as it is by then (the worker has gone on meanwhile)
ReadCancelled(i) ==
    /\ i \in 1..Len(asyncPush)
    /\ ~asyncPush[i].read
    /\ asyncPush' = [asyncPush EXCEPT ![i].read = TRUE, ![i].val = workers[asyncPush[i].from].scr]
    /\ UNCHANGED <<fsys, managerUp, scrapes, sem, workers, stoppers, catalog>>

\* ... and sends it to manage
SendCancelled(i) ==
    /\ i \in 1..Len(asyncPush)
    /\ asyncPush[i].read
    /\ scrapes' = MapPut(scrapes, asyncPush[i].val.RootDir, asyncPush[i].val)
    /\ asyncPush' = SubSeq(asyncPush, 1, i - 1) \o SubSeq(asyncPush, i + 1, Len(asyncPush))
    /\ UNCHANGED <<fsys, managerUp, sem, workers, stoppers, catalog>>

-----------------------------------------------------------------------------
(* The requests manage serves: start, stop, status *)

\* startScraping: the scrape handed back to Start, failed with
\* ErrAlreadyQueued when scrapeRunning finds the directory taken
startScraping(rootDir, running, stop) ==
    IF scrapeRunning(running, rootDir)
    THEN [NewScrape(rootDir, stop) EXCEPT !.Err = ErrAlreadyQueued, !.Status = StatusFailed]
    ELSE NewScrape(rootDir, stop)

\* A Start that starts a worker for a scrape it refuses, too
StartAlwaysSpawns(rootDir) ==
    LET scr == startScraping(rootDir, scrapes, Len(workers) + 1)
    IN /\ managerUp' = TRUE
       /\ workers' = Append(workers, NewWorker(scr))
       /\ UNCHANGED <<fsys, scrapes, sem, stoppers, asyncPush, catalog>>

\* A Start that returns only once its scrape can have a token
StartWaitsForToken(rootDir) ==
    LET scr == startScraping(rootDir, scrapes, Len(workers) + 1)
    IN /\ CanTakeToken(sem)
       /\ managerUp' = TRUE
       /\ workers' = IF scr.Status = StatusFailed
                     THEN workers
                     ELSE Append(workers, NewWorker(scr))
       /\ UNCHANGED <<fsys, scrapes, sem, stoppers, asyncPush, catalog>>

\* Scraper.Start: the first call starts manage; manage runs startScraping,
\* which starts a worker unless it refuses; Start returns the error of a
\* failed scrape and nil otherwise
Start(rootDir) ==
    LET scr == startScraping(rootDir, scrapes, Len(workers) + 1)
    IN /\ managerUp' = TRUE
       /\ workers' = IF scr.Status = StatusFailed
                     THEN workers
                     ELSE Append(workers, NewWorker(scr))
       /\ UNCHANGED <<fsys, scrapes, sem, stoppers, asyncPush, catalog>>

\* Scraper.Start(rootDir), what it returns: the error of a scrape that comes
\* back failed, else nil
StartResult(rootDir) ==
    LET scr == startScraping(rootDir, scrapes, Len(workers) + 1)
    IN IF scr.Status = StatusFailed THEN scr.Err ELSE NoErr

\* The scrape of worker w is accepted and not ended: the worker has not yet
\* set a final status
Active(w) == workers[w].scr.Status \in {StatusQueued, StatusRunning}

\* Worker w holds a token: it is between "s.queueSemaphore <- 1" and
\* "<-s.queueSemaphore"
Walking(w) == workers[w].pc \notin {"queued", "pushFinal", "done"}

\* Scraper.Stop (StopAll is Stop("")): nothing to do without manage; else
\* manage takes the request and spawns the goroutine that serves it
Stop(rootDir) ==
    /\ stoppers' = Append(stoppers,
           [rootDir |-> rootDir,
            pc |-> IF managerUp THEN "spawned" ELSE "done",
            target |-> 0, startKeys |-> {}, visited |-> {}, delivered |-> {}])
    /\ UNCHANGED <<fsys, managerUp, scrapes, sem, workers, asyncPush, catalog>>

\* The scrapes a stop request for rootDir is about, as they are when it is
\* made: accepted and not ended; of these, the ones whose worker has no token
\* yet
StopLogEntry(rootDir) ==
    LET meant == {w \in WorkerIds : rootDir = EmptyStr \/ workers[w].scr.RootDir = rootDir}
    IN [active |-> {w \in meant : Active(w)},
        queued |-> {w \in meant : workers[w].pc = "queued"}]

\* Scrape.Stop on the copy scr, called by stop goroutine st, which goes on at
\* next once the call has returned: a running scrape is sent the signal and
\* the caller waits for it to be taken
ScrapeStopCaller(st, scr, next) ==
    IF scr.Status = StatusRunning
    THEN [st EXCEPT !.pc = "sending", !.target = scr.stopChan]
    ELSE [st EXCEPT !.pc = next]

\* A Scrape.Stop that leaves a sending goroutine behind for every scrape
\* that is not running
ScrapeStopWorkersAlways(wks, scr) ==
    IF scr.Status # StatusRunning
    THEN [wks EXCEPT ![scr.stopChan].asyncStops = @ + 1]
    ELSE wks

\* Scrape.Stop on the copy scr: for a queued scrape a goroutine is left
\* behind to send the signal
ScrapeStopWorkers(wks, scr) ==
    IF scr.Status = StatusQueued
    THEN [wks EXCEPT ![scr.stopChan].asyncStops = @ + 1]
    ELSE wks

\* The stop goroutine of manage for one root: looks the scrape up in the
\* registry, stops it and closes the answer channel
StopOne(s) ==
    /\ stoppers[s].pc = "spawned"
    /\ stoppers[s].rootDir # EmptyStr
    /\ IF stoppers[s].rootDir \in DOMAIN scrapes
       THEN /\ stoppers' = [stoppers EXCEPT ![s] =
                   ScrapeStopCaller(stoppers[s], scrapes[stoppers[s].rootDir], "done")]
            /\ workers' = ScrapeStopWorkers(workers, scrapes[stoppers[s].rootDir])
       ELSE /\ stoppers' = [stoppers EXCEPT ![s].pc = "done"]
            /\ UNCHANGED workers
    /\ UNCHANGED <<fsys, managerUp, scrapes, sem, asyncPush, catalog>>

\* The stop goroutine of manage for all scrapes: the range over the registry
\* begins
StopAllBegin(s) ==
    /\ stoppers[s].pc = "spawned"
    /\ stoppers[s].rootDir = EmptyStr
    /\ stoppers' = [stoppers EXCEPT ![s].pc = "iter", ![s].startKeys = DOMAIN scrapes]
    /\ UNCHANGED <<fsys, managerUp, scrapes, sem, workers, asyncPush, catalog>>

\* The range yields a next scrape (in any order; an entry added since the
\* range began may be yielded or not), which is stopped
StopAllVisit(s) ==
    /\ stoppers[s].pc = "iter"
    /\ \E k \in DOMAIN scrapes \ stoppers[s].visited :
        /\ stoppers' = [stoppers EXCEPT ![s] =
               ScrapeStopCaller([stoppers[s] EXCEPT !.visited = @ \cup {k}], scrapes[k], "iter")]
        /\ workers' = ScrapeStopWorkers(workers, scrapes[k])
    /\ UNCHANGED <<fsys, managerUp, scrapes, sem, asyncPush, catalog>>

\* The range is over: the answer channel is closed
StopAllEnd(s) ==
    /\ stoppers[s].pc = "iter"
    /\ stoppers[s].startKeys \subseteq stoppers[s].visited
    /\ stoppers' = [stoppers EXCEPT ![s].pc = "done"]
    /\ UNCHANGED <<fsys, managerUp, scrapes, sem, workers, asyncPush, catalog>>

\* The goroutine Scrape.Stop left behind for a queued scrape hands its signal
\* to the walk like any other sender: see WalkStop and WalkEnd.

\* A manage that answers a request for all scrapes with the running ones only
StatusAnswerRunning(registry, rootDir) ==
    IF rootDir = EmptyStr
    THEN {[isNil |-> FALSE, val |-> registry[k]] :
              k \in {r \in DOMAIN registry : registry[r].Status = StatusRunning}}
    ELSE IF rootDir \in DOMAIN registry
         THEN {[isNil |-> FALSE, val |-> registry[rootDir]]}
         ELSE {[isNil |-> TRUE, val |-> NewScrape(EmptyStr, 0)]}

\* manage, status case: the pointers sent on the answer channel before it is
\* closed; for a root without scrape that is one nil pointer
StatusAnswer(registry, rootDir) ==
    IF rootDir = EmptyStr
    THEN {[isNil |-> FALSE, val |-> registry[k]] : k \in DOMAIN registry}
    ELSE IF rootDir \in DOMAIN registry
         THEN {[isNil |-> FALSE, val |-> registry[rootDir]]}
         ELSE {[isNil |-> TRUE, val |-> NewScrape(EmptyStr, 0)]}

\* doGetStatus: "ret = append(ret, *scr)" for every pointer received; a nil
\* pointer makes the dereference panic
doGetStatus(up, registry, rootDir) ==
    IF ~up
    THEN [panic |-> FALSE, ret |-> {}]
    ELSE LET answer == StatusAnswer(registry, rootDir)
         IN IF \E p \in answer : p.isNil
            THEN [panic |-> TRUE, ret |-> {}]
            ELSE [panic |-> FALSE, ret |-> {p.val : p \in answer}]

\* Scraper.Status(rootDir): nil for the empty root, else the first scrape
\* doGetStatus returns, nil if there is none
Status(rootDir) ==
    /\ lastStatus' =
          IF rootDir = EmptyStr
          THEN [rootDir |-> rootDir, all |-> FALSE, panic |-> FALSE, ret |-> {}, called |-> TRUE]
          ELSE [rootDir |-> rootDir, all |-> FALSE, called |-> TRUE]
                   @@ doGetStatus(managerUp, scrapes, rootDir)
    /\ UNCHANGED <<fsys, managerUp, scrapes, sem, workers, stoppers, asyncPush, catalog>>

\* Scraper.StatusAll
StatusAll ==
    /\ lastStatus' = [rootDir |-> EmptyStr, all |-> TRUE, called |-> TRUE]
                         @@ doGetStatus(managerUp, scrapes, EmptyStr)
    /\ UNCHANGED <<fsys, managerUp, scrapes, sem, workers, stoppers, asyncPush, catalog>>

-----------------------------------------------------------------------------------------------------------------------------------------------------
(* Specifications *)

NoStatus == [rootDir |-> EmptyStr, all |-> FALSE, panic |-> FALSE, ret |-> {}, called |-> FALSE]

\* The main playlist is empty and no call of AddMainEntry is under way
NoWishes == playlist = << >> /\ adders = << >>

\* No session exists
NoReply == [called |-> "none", id |-> 0, err |-> FALSE, session |-> << >>]

NoSessions ==
    /\ sessions = NoMap
    /\ now = 0
    /\ made = 0
    /\ gone = {}
    /\ lastSession = NoReply

\* The goroutines that call Start on a Scraper New has just returned
Callers == 1..MaxCallers

\* No channel: the nil of the fields startChan, stopChan and statusChan
NilChan == 0

\* A Scraper as New returns it: the three channel fields are nil and no
\* manage goroutine runs; no caller is inside Start
NoCalls ==
    [startChan |-> NilChan, stopChan |-> NilChan, statusChan |-> NilChan, managers |-> {},
     pc |-> [c \in Callers |-> "idle"], served |-> {}]

Init ==
    /\ fsys = "media"
    /\ managerUp = FALSE
    /\ scrapes = NoMap
    /\ sem = 0
    /\ workers = << >>
    /\ stoppers = << >>
    /\ asyncPush = << >>
    /\ catalog = InitialCatalog(fsys)
    /\ stopLog = << >>
    /\ ctl = NoCalls
    /\ NoWishes
    /\ NoSessions
    /\ lastStatus = NoStatus

\* The steps of a worker goroutine that is not sent a stop signal
Work ==
    \/ \E w \in WorkerIds : TakeToken(w)
    \/ \E w \in WorkerIds : SendStatus(w)
    \/ \E w \in WorkerIds : WalkEntry(w)
    \/ \E w \in WorkerIds : WalkEnd(w)
    \/ \E w \in WorkerIds : ScrapeFile(w)
    \/ \E w \in WorkerIds : StoreFile(w)
    \/ \E w \in WorkerIds : ReleaseToken(w)

\* The steps stop requests bring about
Halt ==
    \/ \E w \in WorkerIds : WalkStop(w)
    \/ \E i \in 1..Len(asyncPush) : ReadCancelled(i)
    \/ \E i \in 1..Len(asyncPush) : SendCancelled(i)
    \/ \E s \in 1..Len(stoppers) : StopOne(s)
    \/ \E s \in 1..Len(stoppers) : StopAllBegin(s)
    \/ \E s \in 1..Len(stoppers) : StopAllVisit(s)
    \/ \E s \in 1..Len(stoppers) : StopAllEnd(s)

\* The model accepts at most max scrapes; a start that is refused is always
\* possible
StartAllowed(rootDir, max) == Len(workers) < max \/ scrapeRunning(scrapes, rootDir)

\* Spec: callers start scrapes of two nested roots and stop them, one root
\* or all
NestedRoots == {PathA, PathAB}

Next ==
    \/ /\ \E r \in NestedRoots : StartAllowed(r, MaxScrapes) /\ Start(r)
       /\ UNCHANGED <<stopLog, lastStatus, ctl, playlistVars, sessionVars>>
    \/ /\ \E r \in NestedRoots \cup {EmptyStr} :
            Len(stoppers) < MaxStops /\ Stop(r) /\ stopLog' = Append(stopLog, StopLogEntry(r))
       /\ UNCHANGED <<lastStatus, ctl, playlistVars, sessionVars>>
    \/ (Work \/ Halt) /\ UNCHANGED <<stopLog, lastStatus, ctl, playlistVars, sessionVars>>

Spec == Init /\ [][Next]_vars

\* SpecQueue: callers start more scrapes than there are tokens, of a root
\* with a new file and of a root that does not exist
QueueRoots == {PathAX, PathC}

NextQueue ==
    \/ /\ \E r \in QueueRoots : StartAllowed(r, MaxQueueScrapes) /\ Start(r)
       /\ UNCHANGED <<stopLog, lastStatus, ctl, playlistVars, sessionVars>>
    \/ Work /\ UNCHANGED <<stopLog, lastStatus, ctl, playlistVars, sessionVars>>

SpecQueue == Init /\ [][NextQueue]_vars

\* SpecStatus: callers start scrapes and ask for their status; lastStatus is
\* the reply while the caller holds it, up to the next step of the scraper
StatusRoots == {PathA, PathAB, PathC}

NextStatus ==
    \/ /\ \E r \in StatusRoots : StartAllowed(r, MaxStatusScrapes) /\ Start(r)
       /\ lastStatus' = NoStatus
       /\ UNCHANGED <<stopLog, ctl, playlistVars, sessionVars>>
    \/ Work /\ lastStatus' = NoStatus /\ UNCHANGED <<stopLog, ctl, playlistVars, sessionVars>>
    \/ (\E r \in StatusRoots \cup {EmptyStr} : Status(r)) /\ UNCHANGED <<stopLog, ctl, playlistVars, sessionVars>>
    \/ StatusAll /\ UNCHANGED <<stopLog, ctl, playlistVars, sessionVars>>

SpecStatus == Init /\ [][NextStatus]_vars

\* SpecOverlap: callers start scrapes of two sibling directories, the name of
\* one beginning with the name of the other
OverlapRoots == {PathA, PathAX}

NextOverlap ==
    \/ /\ \E r \in OverlapRoots : StartAllowed(r, MaxOverlapScrapes) /\ Start(r)
       /\ UNCHANGED <<stopLog, lastStatus, ctl, playlistVars, sessionVars>>
    \/ Work /\ UNCHANGED <<stopLog, lastStatus, ctl, playlistVars, sessionVars>>

SpecOverlap == Init /\ [][NextOverlap]_vars

\* SpecWalk: a tree with a subdirectory, a file that cannot be scraped and a
\* directory that cannot be read, all before further entries.  Callers start
\* one scrape of it and one of a root that does not exist, and stop them.
InitWalk ==
    /\ fsys = "deep"
    /\ managerUp = FALSE
    /\ scrapes = NoMap
    /\ sem = 0
    /\ workers = << >>
    /\ stoppers = << >>
    /\ asyncPush = << >>
    /\ catalog = InitialCatalog(fsys)
    /\ stopLog = << >>
    /\ ctl = NoCalls
    /\ NoWishes
    /\ NoSessions
    /\ lastStatus = NoStatus

WalkRoots == {PathA, PathC}

\* A root is started while no scrape of it was accepted; a start that is
\* refused is always possible
StartOnce(rootDir) ==
    (\A w \in WorkerIds : workers[w].scr.RootDir # rootDir) \/ scrapeRunning(scrapes, rootDir)

NextWalk ==
    \/ /\ \E r \in WalkRoots : StartOnce(r) /\ Start(r)
       /\ UNCHANGED <<stopLog, lastStatus, ctl, playlistVars, sessionVars>>
    \/ /\ \E r \in {PathA, EmptyStr} :
            Len(stoppers) < MaxWalkStops /\ Stop(r) /\ stopLog' = Append(stopLog, StopLogEntry(r))
       /\ UNCHANGED <<lastStatus, ctl, playlistVars, sessionVars>>
    \/ (Work \/ Halt) /\ UNCHANGED <<stopLog, lastStatus, ctl, playlistVars, sessionVars>>

SpecWalk == InitWalk /\ [][NextWalk]_vars

\* SpecToken: callers start one scrape of a directory with a video and one
\* of a root that does not exist, and stop them
TokenRoots == {PathAB, PathC}

NextToken ==
    \/ /\ \E r \in TokenRoots : StartOnce(r) /\ Start(r)
       /\ UNCHANGED <<stopLog, lastStatus, ctl, playlistVars, sessionVars>>
    \/ /\ \E r \in {PathAB, EmptyStr} :
            Len(stoppers) < MaxTokenStops /\ Stop(r) /\ stopLog' = Append(stopLog, StopLogEntry(r))
       /\ UNCHANGED <<lastStatus, ctl, playlistVars, sessionVars>>
    \/ (Work \/ Halt) /\ UNCHANGED <<stopLog, lastStatus, ctl, playlistVars, sessionVars>>

SpecToken == Init /\ [][NextToken]_vars

\* SpecRunning: callers start one scrape each of three directories none of
\* which lies in another, one more than there are tokens
RunningRoots == {PathAB, PathAX, PathC}

NextRunning ==
    \/ /\ \E r \in RunningRoots : StartOnce(r) /\ Start(r)
       /\ UNCHANGED <<stopLog, lastStatus, ctl, playlistVars, sessionVars>>
    \/ Work /\ UNCHANGED <<stopLog, lastStatus, ctl, playlistVars, sessionVars>>

SpecRunning == Init /\ [][NextRunning]_vars

\* SpecReject: callers start scrapes of a directory and of one inside it;
\* lastStatus is what the last Start call returned, up to the next step of
\* the scraper
StartReply(rootDir) ==
    [rootDir |-> rootDir, all |-> FALSE, panic |-> FALSE, ret |-> {}, called |-> FALSE,
     start |-> TRUE, err |-> StartResult(rootDir)]

NextReject ==
    \/ /\ \E r \in NestedRoots :
            StartAllowed(r, MaxRejectScrapes) /\ Start(r) /\ lastStatus' = StartReply(r)
       /\ UNCHANGED <<stopLog, ctl, playlistVars, sessionVars>>
    \/ Work /\ lastStatus' = NoStatus /\ UNCHANGED <<stopLog, ctl, playlistVars, sessionVars>>

SpecReject == Init /\ [][NextReject]_vars

\* A reply that hands out the entry of the registry map itself
SnapshotIsAlias == FALSE

\* manage answers a status request with "data := scr // Copy; answer <- &data",
\* a variable of its own for every entry of map[string]Scrape, and doGetStatus
\* keeps "*scr" in its own slice: the Scrape a caller holds is storage of the
\* caller, not of the registry
SnapshotIsCopy == TRUE

\* The registry as the holder of a snapshot a caller changed leaves it: the
\* write lands in the map only if the snapshot is the entry of the map
WrittenThrough(registry, old, new) ==
    IF SnapshotIsCopy THEN registry ELSE MapPut(registry, old.RootDir, new)

\* The snapshots a caller holds after a step of the scraper: they follow the
\* registry only if they are its entries
HeldAfter(held, registry) ==
    IF SnapshotIsCopy
    THEN held
    ELSE [held EXCEPT !.ret = {IF v.RootDir \in DOMAIN registry THEN registry[v.RootDir] ELSE v : v \in held.ret}]

\* The exported fields of Scrape a caller assigns to on a snapshot it holds
CallerEdits(v) ==
    {[v EXCEPT !.Status = StatusFailed], [v EXCEPT !.NumFiles = 0, !.CurrentFile = EmptyStr]} \ {v}

\* A caller changes fields of a snapshot Status or StatusAll returned to it
CallerWrites ==
    /\ \E v \in lastStatus.ret : \E e \in CallerEdits(v) :
          /\ lastStatus' = [rootDir |-> lastStatus.rootDir, all |-> lastStatus.all,
                            panic |-> lastStatus.panic, called |-> lastStatus.called,
                            ret |-> (lastStatus.ret \ {v}) \cup {e}, edited |-> TRUE]
          /\ scrapes' = WrittenThrough(scrapes, v, e)
    /\ UNCHANGED <<fsys, managerUp, sem, workers, stoppers, asyncPush, catalog>>

\* SpecSnapshot: a caller starts one scrape of a directory with a video and
\* one of a root that does not exist, asks for their status and changes the
\* snapshots it got; lastStatus is the reply the caller holds
NextSnapshot ==
    \/ /\ \E r \in TokenRoots : StartOnce(r) /\ Start(r)
       /\ lastStatus' = HeldAfter(lastStatus, scrapes')
       /\ UNCHANGED <<stopLog, ctl, playlistVars, sessionVars>>
    \/ Work /\ lastStatus' = HeldAfter(lastStatus, scrapes') /\ UNCHANGED <<stopLog, ctl, playlistVars, sessionVars>>
    \/ (\E r \in TokenRoots : r \in DOMAIN scrapes /\ Status(r)) /\ UNCHANGED <<stopLog, ctl, playlistVars, sessionVars>>
    \/ StatusAll /\ UNCHANGED <<stopLog, ctl, playlistVars, sessionVars>>
    \/ CallerWrites /\ UNCHANGED <<stopLog, ctl, playlistVars, sessionVars>>

SpecSnapshot == Init /\ [][NextSnapshot]_vars

\* SpecLive: callers start one scrape each of three directories, one more
\* than there are tokens; a worker that can take a step takes it in the end
WorkStep == Work /\ UNCHANGED <<stopLog, lastStatus, ctl, playlistVars, sessionVars>>

SpecLive == Init /\ [][NextRunning]_vars /\ WF_vars(WorkStep)

\* Start, "if s.startChan == nil": caller c reads the field; nothing orders
\* this read with the stores of another caller
StartTest(c) ==
    /\ ctl.pc[c] = "idle"
    /\ ctl' = [ctl EXCEPT !.pc[c] = IF ctl.startChan = NilChan THEN "setStart" ELSE "send"]
    /\ UNCHANGED <<fsys, managerUp, scrapes, sem, workers, stoppers, asyncPush, catalog,
                   stopLog, lastStatus, playlistVars, sessionVars>>

\* "s.startChan = start": the channel caller c has made is named after c
StartSetStart(c) ==
    /\ ctl.pc[c] = "setStart"
    /\ ctl' = [ctl EXCEPT !.startChan = c, !.pc[c] = "setStop"]
    /\ UNCHANGED <<fsys, managerUp, scrapes, sem, workers, stoppers, asyncPush, catalog,
                   stopLog, lastStatus, playlistVars, sessionVars>>

\* "s.stopChan = stop"
StartSetStop(c) ==
    /\ ctl.pc[c] = "setStop"
    /\ ctl' = [ctl EXCEPT !.stopChan = c, !.pc[c] = "setStatus"]
    /\ UNCHANGED <<fsys, managerUp, scrapes, sem, workers, stoppers, asyncPush, catalog,
                   stopLog, lastStatus, playlistVars, sessionVars>>

\* "s.statusChan = status"
StartSetStatus(c) ==
    /\ ctl.pc[c] = "setStatus"
    /\ ctl' = [ctl EXCEPT !.statusChan = c, !.pc[c] = "spawn"]
    /\ UNCHANGED <<fsys, managerUp, scrapes, sem, workers, stoppers, asyncPush, catalog,
                   stopLog, lastStatus, playlistVars, sessionVars>>

\* "go s.manage(start, stop, status)": a manage goroutine with a registry of
\* its own ("scrapes := make(scrapeMap)") serves the channels of caller c
StartSpawn(c) ==
    /\ ctl.pc[c] = "spawn"
    /\ ctl' = [ctl EXCEPT !.managers = @ \cup {c}, !.pc[c] = "send"]
    /\ managerUp' = TRUE
    /\ UNCHANGED <<fsys, scrapes, sem, workers, stoppers, asyncPush, catalog, stopLog, lastStatus,
                   playlistVars, sessionVars>>

\* "s.startChan <- scrapeRequest{...}; scrape := <-ret": the request goes to
\* the manage goroutine that receives on the channel in the field by now
StartSend(c) ==
    /\ ctl.pc[c] = "send"
    /\ ctl.startChan \in ctl.managers
    /\ ctl' = [ctl EXCEPT !.served = @ \cup {[kind |-> "start", by |-> ctl.startChan]},
                          !.pc[c] = "done"]
    /\ UNCHANGED <<fsys, managerUp, scrapes, sem, workers, stoppers, asyncPush, catalog,
                   stopLog, lastStatus, playlistVars, sessionVars>>

\* Scraper.Stop, "s.stopChan <- scrapeRequest{rootDir, c}"
StopSend ==
    /\ ctl.stopChan \in ctl.managers
    /\ ctl' = [ctl EXCEPT !.served = @ \cup {[kind |-> "stop", by |-> ctl.stopChan]}]
    /\ UNCHANGED <<fsys, managerUp, scrapes, sem, workers, stoppers, asyncPush, catalog,
                   stopLog, lastStatus, playlistVars, sessionVars>>

\* doGetStatus, "s.statusChan <- req"
StatusSend ==
    /\ ctl.statusChan \in ctl.managers
    /\ ctl' = [ctl EXCEPT !.served = @ \cup {[kind |-> "status", by |-> ctl.statusChan]}]
    /\ UNCHANGED <<fsys, managerUp, scrapes, sem, workers, stoppers, asyncPush, catalog,
                   stopLog, lastStatus, playlistVars, sessionVars>>

\* SpecFirst: several goroutines call Start on a new Scraper at once, then
\* Stop and Status are called; the requests are followed to the manage
\* goroutine that takes them, the scrapes themselves are not run
NextFirst ==
    \/ \E c \in Callers : StartTest(c)
    \/ \E c \in Callers : StartSetStart(c)
    \/ \E c \in Callers : StartSetStop(c)
    \/ \E c \in Callers : StartSetStatus(c)
    \/ \E c \in Callers : StartSpawn(c)
    \/ \E c \in Callers : StartSend(c)
    \/ StopSend
    \/ StatusSend

SpecFirst == Init /\ [][NextFirst]_vars

\* SpecTwins: the catalog is empty and two directories, neither inside the
\* other, hold a copy of the same video; callers start one scrape of each
InitTwins ==
    /\ fsys = "twins"
    /\ managerUp = FALSE
    /\ scrapes = NoMap
    /\ sem = 0
    /\ workers = << >>
    /\ stoppers = << >>
    /\ asyncPush = << >>
    /\ catalog = InitialCatalog(fsys)
    /\ stopLog = << >>
    /\ lastStatus = NoStatus
    /\ ctl = NoCalls
    /\ NoWishes
    /\ NoSessions

TwinRoots == {PathAB, PathAX}

NextTwins ==
    \/ /\ \E r \in TwinRoots : StartOnce(r) /\ Start(r)
       /\ UNCHANGED <<stopLog, lastStatus, ctl, playlistVars, sessionVars>>
    \/ Work /\ UNCHANGED <<stopLog, lastStatus, ctl, playlistVars, sessionVars>>

SpecTwins == InitTwins /\ [][NextTwins]_vars

\* SpecDot: the catalog is empty and /a/b holds a video named ".mp4";
\* callers start one scrape each of three directories
InitDot ==
    /\ fsys = "dot"
    /\ managerUp = FALSE
    /\ scrapes = NoMap
    /\ sem = 0
    /\ workers = << >>
    /\ stoppers = << >>
    /\ asyncPush = << >>
    /\ catalog = InitialCatalog(fsys)
    /\ stopLog = << >>
    /\ lastStatus = NoStatus
    /\ ctl = NoCalls
    /\ NoWishes
    /\ NoSessions

SpecDot == InitDot /\ [][NextRunning]_vars

\* SpecNames: the catalog is empty and the directories hold videos with the
\* names the file name scrapers read; callers start one scrape each of three
\* directories
InitNames ==
    /\ fsys = "names"
    /\ managerUp = FALSE
    /\ scrapes = NoMap
    /\ sem = 0
    /\ workers = << >>
    /\ stoppers = << >>
    /\ asyncPush = << >>
    /\ catalog = InitialCatalog(fsys)
    /\ stopLog = << >>
    /\ lastStatus = NoStatus
    /\ ctl = NoCalls
    /\ NoWishes
    /\ NoSessions

SpecNames == InitNames /\ [][NextRunning]_vars

-----------------------------------------------------------------------------
(* The main playlist: playlistService.AddMainEntry *)

\* The restrictions of the default configuration
NumWishesFromSameIP == 2

AllowDuplicateWishes == FALSE

IPWhitelist == {}

\* The guests that send wishes, by address, and the videos they wish for
GuestIPs == {"10.0.0.7"}

WishVideos == {"h1", "h2", "h5"}

\* configService.IsWhitelisted
IsWhitelisted(ipAddr) == ipAddr \in IPWhitelist

\* PlaylistRepo.GetEntryCountByVideo, GetEntryCountByIP: SELECT COUNT(*)
GetEntryCountByVideo(rows, videoHash) ==
    Cardinality({i \in 1..Len(rows) : rows[i].VideoHash = videoHash})

GetEntryCountByIP(rows, ipAddr) ==
    Cardinality({i \in 1..Len(rows) : rows[i].RequesterIP = ipAddr})

\* A guest calls AddMainEntry: there is a current event and its playlist is
\* open; the checks and the insert that follow are calls of their own to the
\* database
AddMainEntry(ipAddr, videoHash) ==
    /\ Len(adders) < MaxWishes
    /\ adders' = Append(adders, [RequesterIP |-> ipAddr, VideoHash |-> videoHash, pc |-> "video"])
    /\ UNCHANGED <<playlist, scraperVars, sessionVars>>

\* "if !conf.Restrictions.AllowDuplicateWishes": the wish is refused when the
\* video is on the list
CheckVideo(a) ==
    /\ adders[a].pc = "video"
    /\ adders' = [adders EXCEPT ![a].pc =
           IF ~AllowDuplicateWishes /\ GetEntryCountByVideo(playlist, adders[a].VideoHash) > 0
           THEN "forbidden"
           ELSE "ip"]
    /\ UNCHANGED <<playlist, scraperVars, sessionVars>>

\* "if !s.config.IsWhitelisted(entry.RequesterIP)": the wish is refused when
\* the address has its number of wishes on the list
CheckIP(a) ==
    /\ adders[a].pc = "ip"
    /\ adders' = [adders EXCEPT ![a].pc =
           IF ~IsWhitelisted(adders[a].RequesterIP)
                /\ GetEntryCountByIP(playlist, adders[a].RequesterIP) >= NumWishesFromSameIP
           THEN "forbidden"
           ELSE "add"]
    /\ UNCHANGED <<playlist, scraperVars, sessionVars>>

\* "return s.AddEntry(ctx, mainID, entry)": PlaylistRepo.AddEntry inserts the
\* row
AddEntry(a) ==
    /\ adders[a].pc = "add"
    /\ playlist' = Append(playlist, [VideoHash |-> adders[a].VideoHash,
                                     RequesterIP |-> adders[a].RequesterIP])
    /\ adders' = [adders EXCEPT ![a].pc = "added"]
    /\ UNCHANGED <<scraperVars, sessionVars>>

\* SpecWish: guests send wishes for the main playlist at the same time
NextWish ==
    \/ \E ip \in GuestIPs, v \in WishVideos : AddMainEntry(ip, v)
    \/ \E a \in 1..Len(adders) : CheckVideo(a)
    \/ \E a \in 1..Len(adders) : CheckIP(a)
    \/ \E a \in 1..Len(adders) : AddEntry(a)

SpecWish == Init /\ [][NextWish]_vars

-----------------------------------------------------------------------------
(* The session repository: SessionRepo.control *)

\* Users that log in
UserIds == {1, 2}

\* A session that is still returned one minute after its expiry
ExpiredLate(sess, t) == sess.ExpiresAt + 1 < t

\* Session.Expired: "s.ExpiresAt.Before(time.Now())"
Expired(sess, t) == sess.ExpiresAt < t

\* delete(sessions, key)
MapDelete(m, key) == [k \in DOMAIN m \ {key} |-> m[k]]

\* CreateFor: control makes a session under a new random id, stores it and
\* answers with a copy
CreateFor(userID) ==
    /\ made < MaxSessions
    /\ LET sess == [ID |-> made + 1, UserID |-> userID, ExpiresAt |-> now + SessionLife]
       IN /\ sessions' = MapPut(sessions, sess.ID, sess)
          /\ lastSession' = [called |-> "create", id |-> sess.ID, err |-> FALSE,
                             session |-> <<sess>>]
    /\ made' = made + 1
    /\ UNCHANGED <<now, gone, scraperVars, playlistVars>>

\* GetByID: an expired session is deleted and reported as not existing; any
\* other is extended when asked for and a copy of it is the answer
GetByID(sessionID, extend) ==
    /\ IF sessionID \in DOMAIN sessions
       THEN IF Expired(sessions[sessionID], now)
            THEN /\ sessions' = MapDelete(sessions, sessionID)
                 /\ lastSession' = [called |-> "get", id |-> sessionID, err |-> TRUE,
                                    session |-> << >>]
            ELSE LET sess == IF extend
                             THEN [sessions[sessionID] EXCEPT !.ExpiresAt = now + SessionLife]
                             ELSE sessions[sessionID]
                 IN /\ sessions' = [sessions EXCEPT ![sessionID] = sess]
                    /\ lastSession' = [called |-> "get", id |-> sessionID, err |-> FALSE,
                                       session |-> <<sess>>]
       ELSE /\ sessions' = sessions
            /\ lastSession' = [called |-> "get", id |-> sessionID, err |-> TRUE,
                               session |-> << >>]
    /\ UNCHANGED <<now, made, gone, scraperVars, playlistVars>>

\* Delete; gone notes the id when a session was made under it
DeleteSession(sessionID) ==
    /\ sessions' = MapDelete(sessions, sessionID)
    /\ gone' = gone \cup ({sessionID} \cap 1..made)
    /\ lastSession' = [called |-> "delete", id |-> sessionID, err |-> FALSE, session |-> << >>]
    /\ UNCHANGED <<now, made, scraperVars, playlistVars>>

\* "case <-purge": the ticker has control delete every expired session
Purge ==
    /\ sessions' = [k \in {i \in DOMAIN sessions : ~Expired(sessions[i], now)} |-> sessions[k]]
    /\ lastSession' = NoReply
    /\ UNCHANGED <<now, made, gone, scraperVars, playlistVars>>

\* A minute passes; the caller has done with the answer it held
Tick ==
    /\ now < MaxNow
    /\ now' = now + 1
    /\ lastSession' = NoReply
    /\ UNCHANGED <<sessions, made, gone, scraperVars, playlistVars>>

\* The caller assigns to a field of the session it was handed: that session
\* is "copy := *sess", a variable of its own, not the one in the map
CallerEditsSession ==
    /\ lastSession.session # << >>
    /\ "edited" \notin DOMAIN lastSession
    /\ \E t \in {0, MaxNow + SessionLife}, u \in UserIds :
          lastSession' = [called |-> lastSession.called, id |-> lastSession.id,
                          err |-> lastSession.err, edited |-> TRUE,
                          session |-> <<[lastSession.session[1] EXCEPT !.ExpiresAt = t,
                                                                       !.UserID = u]>>]
    /\ UNCHANGED <<sessions, now, made, gone, scraperVars, playlistVars>>

\* SpecSession: users log in, sessions are asked for, extended and deleted
\* while time passes
NextSession ==
    \/ \E u \in UserIds : CreateFor(u)
    \/ \E id \in 1..MaxSessions, extend \in BOOLEAN : GetByID(id, extend)
    \/ \E id \in 1..MaxSessions : DeleteSession(id)
    \/ Purge
    \/ Tick
    \/ CallerEditsSession

SpecSession == Init /\ [][NextSession]_vars

\* SpecMerge: the catalog knows the video /a/b/g.mp4 with some of its fields
\* filled in, and the scraping functions extract all fields ("full") or
\* nothing but the hash ("bare") from the file; it is scraped once.
MergeFields ==
    {"Title", "Artist", "Language", "RelatedMedium", "MediumDetail", "Description",
     "Duration", "Identifier", "Width", "Height", "VideoFormat", "VideoBitrate",
     "AudioFormat", "AudioBitrate"}

ExistingFull ==
    [SHA512 |-> "h1", Title |-> "t1", Artist |-> "ar1", Language |-> "l1",
     RelatedMedium |-> "r1", MediumDetail |-> "m1", Description |-> "d1",
     Duration |-> 100, Identifier |-> "i1", Filename |-> <<"/", "o", "/", "g", ".mp4">>,
     Width |-> 640, Height |-> 480, VideoFormat |-> "vf1", VideoBitrate |-> 1000,
     AudioFormat |-> "af1", AudioBitrate |-> 128, NumPlayed |-> 2, NumRequested |-> 1]

\* Video v with the fields of names left empty
Blanked(v, names) == [f \in DOMAIN v |-> IF f \in names THEN EmptyVideo[f] ELSE v[f]]

\* The known video: complete, empty, with one field empty or with one field filled
ExistingVideos ==
    {Blanked(ExistingFull, names) :
        names \in {{}, MergeFields} \cup {{f} : f \in MergeFields}
                    \cup {MergeFields \ {f} : f \in MergeFields}}

InitMerge ==
    /\ fsys \in {"full", "bare"}
    /\ managerUp = FALSE
    /\ scrapes = NoMap
    /\ sem = 0
    /\ workers = << >>
    /\ stoppers = << >>
    /\ asyncPush = << >>
    /\ catalog \in {("h1" :> v) : v \in ExistingVideos}
    /\ stopLog = << >>
    /\ ctl = NoCalls
    /\ NoWishes
    /\ NoSessions
    /\ lastStatus = NoStatus

NextMerge ==
    \/ /\ StartAllowed(PathAB, MaxMergeScrapes) /\ Start(PathAB)
       /\ UNCHANGED <<stopLog, lastStatus, ctl, playlistVars, sessionVars>>
    \/ Work /\ UNCHANGED <<stopLog, lastStatus, ctl, playlistVars, sessionVars>>

SpecMerge == InitMerge /\ [][NextMerge]_vars

\* SpecSkip: the same tree, scraped to the end by up to MaxSkipScrapes scrapes
\* (a second one is accepted while the first is not yet in the registry; the
\* two then write the same videos to the catalog)
NextSkip ==
    \/ /\ StartAllowed(PathA, MaxSkipScrapes) /\ Start(PathA)
       /\ UNCHANGED <<stopLog, lastStatus, ctl, playlistVars, sessionVars>>
    \/ Work /\ UNCHANGED <<stopLog, lastStatus, ctl, playlistVars, sessionVars>>

SpecSkip == InitWalk /\ [][NextSkip]_vars

-----------------------------------------------------------------------------
(* Properties *)

TerminalStatuses == {StatusFinished, StatusFailed, StatusCancelled}

\* Directory p is q or an ancestor directory of q
IsPathPrefix(p, q) ==
    /\ Len(p) <= Len(q)
    /\ SubSeq(q, 1, Len(p)) = p
    /\ (Len(p) = Len(q) \/ q[Len(p) + 1] = "/")

PathRelated(p, q) == IsPathPrefix(p, q) \/ IsPathPrefix(q, p)

\* The registry shows the scrape of worker w as queued or running
Registered(w) ==
    /\ workers[w].scr.RootDir \in DOMAIN scrapes
    /\ scrapes[workers[w].scr.RootDir].stopChan = w
    /\ scrapes[workers[w].scr.RootDir].Status \in {StatusQueued, StatusRunning}

\* C1: while a scrape with root R1 is queued or running (its worker has not
\* ended and the registry shows it so), Start(R2) returns ErrAlreadyQueued for
\* every R2 that is R1, lies inside R1 or is an ancestor directory of R1.
C1_OverlappingStartRefused ==
    \A w \in WorkerIds : \A r2 \in NestedRoots :
        (Active(w) /\ Registered(w) /\ PathRelated(workers[w].scr.RootDir, r2))
            => StartResult(r2) = ErrAlreadyQueued

\* C2: while an accepted scrape of root R has not ended, from the moment
\* Start returned, another Start(R) returns ErrAlreadyQueued and StatusAll
\* holds exactly one scrape with root R.
C2_SecondStartRefused ==
    \A w \in WorkerIds :
        Active(w) =>
            /\ StartResult(workers[w].scr.RootDir) = ErrAlreadyQueued
            /\ Cardinality({scr \in doGetStatus(managerUp, scrapes, EmptyStr).ret :
                                scr.RootDir = workers[w].scr.RootDir}) = 1

\* C3: no two scrapes that are both accepted and not ended have roots of
\* which one is the other or an ancestor directory of the other.
C3_NoOverlappingActiveScrapes ==
    \A w1, w2 \in WorkerIds :
        (w1 # w2 /\ Active(w1) /\ Active(w2))
            => ~PathRelated(workers[w1].scr.RootDir, workers[w2].scr.RootDir)

C5_QueuedStopCancels ==
    \A s \in 1..Len(stoppers) : \A w \in stopLog[s].queued :
        stoppers[s].rootDir # EmptyStr
            => workers[w].scr.Status \in {StatusQueued, StatusRunning, StatusCancelled}

\* C6: when Stop(R) has returned and the scrape of R was running when the
\* request was served, the worker of that scrape has ended: it has returned
\* its token and sent its last status, and the registry shows R as ended.
C6_StopWaitsForWorker ==
    \A s \in 1..Len(stoppers) : \A w \in stoppers[s].delivered :
        (stoppers[s].rootDir # EmptyStr /\ stoppers[s].pc = "done")
            => /\ workers[w].pc = "done"
               /\ scrapes[workers[w].scr.RootDir].Status \in TerminalStatuses

\* C7: when StopAll has returned, every scrape that was accepted and not
\* ended when it was called has ended: its worker neither walks nor waits for
\* a token.
C7_StopAllDrains ==
    \A s \in 1..Len(stoppers) : \A w \in stopLog[s].active :
        (stoppers[s].rootDir = EmptyStr /\ stoppers[s].pc = "done")
            => ~Active(w) /\ ~Walking(w)

\* C8: Status(R) does not change the registry; for a root without scrape in
\* the registry it returns nil without panicking, for a root with one it
\* returns a copy of that scrape.
C8_StatusOfUnknownRootIsNil ==
    [][(lastStatus'.called /\ ~lastStatus'.all)
          => /\ scrapes' = scrapes
             /\ ~lastStatus'.panic
             /\ lastStatus'.ret = IF lastStatus'.rootDir \in DOMAIN scrapes
                                  THEN {scrapes[lastStatus'.rootDir]}
                                  ELSE {}]_vars

\* C9: from the moment Start(R) has returned nil the registry holds a scrape
\* for R: queued until the worker has taken a token, running from then on
\* until the scrape ends.
C9_AcceptedScrapeIsRegistered ==
    \A w \in WorkerIds :
        Active(w) =>
            /\ workers[w].scr.RootDir \in DOMAIN scrapes
            /\ workers[w].pc = "queued"
                  => scrapes[workers[w].scr.RootDir].Status = StatusQueued
            /\ workers[w].pc # "queued"
                  => scrapes[workers[w].scr.RootDir].Status \in {StatusQueued, StatusRunning}

\* C10: no step of the scraper changes the times-played and times-requested
\* counters of a video the catalog already holds.
C10_RescrapeKeepsCounters ==
    [][\A h \in DOMAIN catalog :
          /\ h \in DOMAIN catalog'
          /\ catalog'[h].NumPlayed = catalog[h].NumPlayed
          /\ catalog'[h].NumRequested = catalog[h].NumRequested]_vars

\* The steps of walkDir and Scrape.file on a directory entry
EntrySteps == {"pushDir", "pushFile", "scrape", "store", "pushCount"}

\* C11: a scrape whose walk has taken the stop signal, at whatever depth,
\* handles no further directory entry: its worker enters no directory and
\* scrapes or stores no file from then on.  (The scraper never removes a
\* video from the catalog, so files stored before stay stored.)
C11_NoEntryAfterStop ==
    \A w \in WorkerIds :
        workers[w].scr.Status = StatusCancelled => workers[w].pc \notin EntrySteps

\* C20: every scrape in the registry that has ended (finished, failed or
\* cancelled) has an empty current directory and an empty current file.
C20_EndedScrapeHasNoCurrentPath ==
    \A k \in DOMAIN scrapes :
        scrapes[k].Status \in TerminalStatuses
            => scrapes[k].CurrentDir = EmptyStr /\ scrapes[k].CurrentFile = EmptyStr

\* C12: a scrape whose worker has taken a stop signal off its stop channel
\* ends cancelled: no signal is taken without the scrape being cancelled.
C12_DeliveredStopCancels ==
    \A s \in 1..Len(stoppers) : \A w \in stoppers[s].delivered :
        workers[w].pc \in {"release", "pushFinal", "done"}
            => workers[w].scr.Status = StatusCancelled

\* C14: the tokens taken are exactly those of the workers between taking and
\* returning one: a worker returns its token when its scrape has finished,
\* failed or been cancelled, and with no worker walking every token is free.
C14_TokensMatchWalkers ==
    sem = Cardinality({w \in WorkerIds : Walking(w)})

\* A failed and a cancelled scrape have both ended and every token is free
C14_Witness ==
    \E w1, w2 \in WorkerIds :
        /\ workers[w1].pc = "done" /\ workers[w1].scr.Status = StatusFailed
        /\ workers[w2].pc = "done" /\ workers[w2].scr.Status = StatusCancelled
        /\ sem = 0

\* C13: Start(R) returns nil whenever no queued or running scrape of the
\* registry has a root that is R, an ancestor directory of R or a directory
\* inside R: ended scrapes do not stand in the way, nor does a running scrape
\* of a directory whose path is merely the beginning or a part of R's text.
C13_UnrelatedStartAccepted ==
    \A r \in OverlapRoots :
        (\A k \in DOMAIN scrapes :
            scrapes[k].Status \in {StatusQueued, StatusRunning}
                => ~PathRelated(scrapes[k].RootDir, r))
            => StartResult(r) = NoErr

\* The workers of the scrapes of rootDir have all ended, and there is one
AllEnded(rootDir) ==
    /\ \E w \in WorkerIds : workers[w].scr.RootDir = rootDir
    /\ \A w \in WorkerIds : workers[w].scr.RootDir = rootDir => workers[w].pc = "done"

\* C15: a scrape whose root directory cannot be read was accepted by Start
\* (it has a worker) and ends failed with the reason recorded; once it has
\* ended, Status(R) returns that scrape: failed, with the reason.
C15_UnreadableRootFails ==
    \A w \in WorkerIds :
        DirError(fsys, workers[w].scr.RootDir) =>
            /\ workers[w].pc \in {"release", "pushFinal", "done"}
                  => /\ workers[w].scr.Status = StatusFailed
                     /\ workers[w].scr.Err = ErrRootDir
            /\ (/\ lastStatus.called /\ ~lastStatus.all
                /\ lastStatus.rootDir = workers[w].scr.RootDir
                /\ AllEnded(workers[w].scr.RootDir))
                  => /\ ~lastStatus.panic
                     /\ lastStatus.ret # {}
                     /\ \A scr \in lastStatus.ret :
                            scr.Status = StatusFailed /\ scr.Err = ErrRootDir

\* Status is asked for a root that does not exist, after its scrape has ended
C15_Witness ==
    /\ lastStatus.called /\ ~lastStatus.all /\ ~lastStatus.panic
    /\ lastStatus.rootDir = PathC
    /\ AllEnded(PathC)
    /\ \E scr \in lastStatus.ret : scr.Status = StatusFailed

Counters(scr) == <<scr.NumFiles, scr.NumNewFiles, scr.NumUpdatedFiles>>

\* The write worker w is about to make is refused by the catalog
WriteFails(w) ==
    IF workers[w].exists
    THEN workers[w].vid[1].SHA512 \notin DOMAIN catalog
    ELSE workers[w].vid[1].SHA512 \in DOMAIN catalog

\* Worker w is at an entry it will skip: a file the scraping functions fail
\* on or whose write the catalog refuses, or a subdirectory that cannot be read
AtSkippedEntry(w) ==
    \/ workers[w].pc = "scrape" /\ Extracted(fsys, workers[w].scr.CurrentFile).err
    \/ workers[w].pc = "store" /\ WriteFails(w)
    \/ /\ workers[w].pc = "pushDir"
       /\ workers[w].scr.CurrentDir \notin DOMAIN Tree(fsys)

\* C16: a file whose scraping or whose catalog write fails, and a
\* subdirectory that cannot be read, are skipped.  The step that skips leaves
\* the three counters as they are and puts the walk at the next entry of the
\* same directory; the counters change only with a write the catalog
\* accepted; and a scrape of a readable root that is not stopped never fails
\* and ends finished, the entries after the skipped ones having been handled
\* (n.mp4 is in the catalog).
C16_FailingEntriesAreSkipped ==
    /\ [](\A w \in WorkerIds :
            /\ workers[w].scr.Status # StatusFailed
            /\ workers[w].pc \in {"release", "pushFinal", "done"}
                  => /\ workers[w].scr.Status = StatusFinished
                     /\ "h2" \in DOMAIN catalog
                     /\ catalog["h2"].Filename = Join(PathA, FileN))
    /\ [][\A w \in WorkerIds :
            workers'[w] # workers[w] =>
                /\ AtSkippedEntry(w) =>
                      /\ Counters(workers'[w].scr) = Counters(workers[w].scr)
                      /\ workers'[w].pc = "walk"
                      /\ Len(workers'[w].stack) = Len(workers[w].stack)
                      /\ Top(workers'[w]) = [Top(workers[w]) EXCEPT !.idx = @ + 1]
                /\ Counters(workers'[w].scr) # Counters(workers[w].scr)
                      => workers[w].pc = "store" /\ ~WriteFails(w)]_vars

\* A scrape has ended finished although the catalog refused its write of
\* n.mp4 (another scrape had created it meanwhile), after the walk had
\* skipped e.mp4 and the directory m
C16_Witness ==
    \E w \in WorkerIds :
        /\ workers[w].pc = "done"
        /\ workers[w].scr.Status = StatusFinished
        /\ workers[w].scr.NumFiles = 1
        /\ workers[w].scr.NumNewFiles = 0

\* C17: for every finished scrape, in the registry and at its worker, the
\* number of files scraped is the number of new files plus the number of
\* updated files.
C17_FilesAreNewOrUpdated ==
    /\ \A k \in DOMAIN scrapes :
        scrapes[k].Status = StatusFinished
            => scrapes[k].NumFiles = scrapes[k].NumNewFiles + scrapes[k].NumUpdatedFiles
    /\ \A w \in WorkerIds :
        workers[w].scr.Status = StatusFinished
            => workers[w].scr.NumFiles
                  = workers[w].scr.NumNewFiles + workers[w].scr.NumUpdatedFiles

\* The registry holds a finished scrape that found one new and one known file
C17_Witness ==
    \E k \in DOMAIN scrapes :
        /\ scrapes[k].Status = StatusFinished
        /\ scrapes[k].NumFiles = 2
        /\ scrapes[k].NumNewFiles = 1
        /\ scrapes[k].NumUpdatedFiles = 1

\* The video Scrape.file hands to mergeVideos as second argument: what the
\* scraping functions extracted, with the title taken from the file name if
\* they found none
IncomingVideo(fileName) ==
    LET vid == Extracted(fsys, fileName).vid
    IN IF IsBlank(vid.Title)
       THEN [vid EXCEPT !.Title = TitleFromName(vid.Filename)]
       ELSE vid

\* C18: the video that results from merging the catalog's video (existing)
\* with the scraped one (incoming) has, in every metadata field but the file
\* name, existing's value if that is not empty or zero and incoming's value
\* otherwise; its file name is incoming's.
C18_MergeFillsGapsOnly ==
    \A w \in WorkerIds :
        (workers[w].pc = "store" /\ workers[w].exists) =>
            LET existing == catalog[workers[w].vid[1].SHA512]
                incoming == IncomingVideo(workers[w].scr.CurrentFile)
                merged == workers[w].vid[1]
            IN /\ \A f \in MergeFields :
                    merged[f] = IF existing[f] # EmptyVideo[f] THEN existing[f] ELSE incoming[f]
               /\ merged.Filename = incoming.Filename

\* A merge has kept the title the catalog had and taken the artist, which
\* the catalog did not have, from the file
C18_Witness ==
    \E w \in WorkerIds :
        /\ workers[w].pc = "store" /\ workers[w].exists
        /\ fsys = "full"
        /\ catalog["h1"].Title = "t1" /\ workers[w].vid[1].Title = "t1"
        /\ catalog["h1"].Artist = "" /\ workers[w].vid[1].Artist = "ar2"
        /\ workers[w].vid[1].Filename = Join(PathAB, FileG)

FullyPopulated(v) == \A f \in DOMAIN v : v[f] # EmptyVideo[f]

\* C19: merging a video of which every field is filled in with itself gives
\* that video (tried on the catalog's video whenever a scrape has merged it
\* with a scraped one).
C19_MergeIdempotent ==
    \A w \in WorkerIds :
        (workers[w].pc = "store" /\ workers[w].exists) =>
            LET X == catalog[workers[w].vid[1].SHA512]
            IN FullyPopulated(X) => mergeVideos(X, X) = X

\* C21: as long as the registry's scrape of a root is of the same run, its
\* numbers of files scraped, new files and updated files never get smaller
\* from one state of the registry to the next.
C21_RegistryCountersGrow ==
    [][\A k \in DOMAIN scrapes :
          (k \in DOMAIN scrapes' /\ scrapes'[k].stopChan = scrapes[k].stopChan)
              => /\ scrapes'[k].NumFiles >= scrapes[k].NumFiles
                 /\ scrapes'[k].NumNewFiles >= scrapes[k].NumNewFiles
                 /\ scrapes'[k].NumUpdatedFiles >= scrapes[k].NumUpdatedFiles]_vars

\* The goroutines that send a status of their own to manage
PushSteps == {"pushRunning", "pushDir", "pushFile", "pushCount", "pushFinal"}

\* C25: no goroutine but manage reads the registry: no stop goroutine is
\* about to look a scrape up in the registry, or to range over it, while a
\* worker is sending manage a status that manage will write to the registry.
C25_RegistryOnlyTouchedByManage ==
    \A s \in 1..Len(stoppers) : \A w \in WorkerIds :
        ~(stoppers[s].pc \in {"spawned", "iter"} /\ workers[w].pc \in PushSteps)

\* C26: manage writes the statuses of one worker to the registry in the order
\* the worker made them: once the worker has ended, the registry holds the
\* last status of its scrape.
C26_RegistryHoldsLastStatus ==
    \A w \in WorkerIds :
        workers[w].pc = "done" => scrapes[workers[w].scr.RootDir] = workers[w].scr

\* C27: every call of Stop and StopAll returns: no stop goroutine waits to
\* hand its signal to a worker that has left its walk and will not take it.
C27_StopReturns ==
    \A s \in 1..Len(stoppers) :
        stoppers[s].pc = "sending"
            => workers[stoppers[s].target].pc \notin {"release", "pushFinal", "done"}

\* C22: a scrape in the registry has an error only if its status is failed.
C22_ReasonOnlyWhenFailed ==
    \A k \in DOMAIN scrapes :
        scrapes[k].Err # NoErr => scrapes[k].Status = StatusFailed

\* The registry holds a failed scrape with its error and a cancelled one
\* without
C22_Witness ==
    /\ PathC \in DOMAIN scrapes /\ PathAB \in DOMAIN scrapes
    /\ scrapes[PathC].Status = StatusFailed /\ scrapes[PathC].Err = ErrRootDir
    /\ scrapes[PathAB].Status = StatusCancelled /\ scrapes[PathAB].Err = NoErr

\* The stop goroutine s serves, in this step, a request for one root whose
\* scrape the registry shows as ended or does not hold
ServesIdleStop(s) ==
    /\ stoppers[s].pc = "spawned"
    /\ stoppers'[s].pc # "spawned"
    /\ stoppers[s].rootDir # EmptyStr
    /\ \/ stoppers[s].rootDir \notin DOMAIN scrapes
       \/ scrapes[stoppers[s].rootDir].Status \in TerminalStatuses

\* C24: serving Stop(R) when the registry shows the scrape of R as ended, or
\* holds none, changes neither registry nor workers nor tokens, leaves no
\* signal behind for a worker to take, and the call returns.
C24_StopOfEndedScrapeIsNoOp ==
    [][\A s \in 1..Len(stoppers) :
          ServesIdleStop(s) =>
              /\ UNCHANGED <<scrapes, workers, sem, asyncPush>>
              /\ stoppers'[s].pc = "done"
              /\ stoppers'[s].target = 0
              /\ stoppers'[s].delivered = {}]_vars

\* Stop was called for /a/b after its scrape had ended, and has returned
C24_Witness ==
    \E s \in 1..Len(stoppers) :
        /\ stoppers[s].rootDir = PathAB
        /\ stoppers[s].pc = "done"
        /\ stopLog[s].active = {}
        /\ \E w \in WorkerIds : workers[w].scr.RootDir = PathAB /\ workers[w].pc = "done"
        /\ PathAB \in DOMAIN scrapes
        /\ scrapes[PathAB].Status = StatusFinished

\* C28: the registry never holds more than 2 running scrapes.
C28_AtMostTwoRunningRecords ==
    Cardinality({k \in DOMAIN scrapes : scrapes[k].Status = StatusRunning}) <= 2

\* The step is a call of Start that returned ErrAlreadyQueued
StartRefused ==
    /\ "start" \in DOMAIN lastStatus'
    /\ lastStatus'.err = ErrAlreadyQueued

\* C29: a Start that returns ErrAlreadyQueued changes nothing: the registry,
\* the workers and the tokens are as before, and StatusAll returns the same
\* before and after.
C29_RefusedStartHasNoEffect ==
    [][StartRefused =>
          /\ UNCHANGED <<managerUp, scrapes, workers, sem, stoppers, asyncPush, catalog>>
          /\ doGetStatus(managerUp', scrapes', EmptyStr)
                = doGetStatus(managerUp, scrapes, EmptyStr)]_vars

\* Start("/a/b") has just been refused because /a is being scraped, and
\* there is still one worker only
C29_Witness ==
    /\ "start" \in DOMAIN lastStatus
    /\ lastStatus.rootDir = PathAB
    /\ lastStatus.err = ErrAlreadyQueued
    /\ Len(workers) = 1
    /\ PathA \in DOMAIN scrapes
    /\ scrapes[PathA].Status = StatusRunning

\* A stop goroutine waits for a running worker to take its signal
StopBeingDelivered == \E s \in 1..Len(stoppers) : stoppers[s].pc = "sending"

CallerWrote == "edited" \in DOMAIN lastStatus' /\ lastStatus'.ret # lastStatus.ret /\ UNCHANGED workers

StartAccepted == Len(workers') = Len(workers) + 1

\* C31: Start returns once manage has accepted or refused the request, also
\* while both tokens are held: the call is possible then, and an accepted one
\* leaves its worker queued, the tokens and every other worker as they were.
C31_StartDoesNotWait ==
    /\ [](sem = SemCapacity => \A r \in RunningRoots : ENABLED Start(r))
    /\ [][(StartAccepted /\ sem = SemCapacity) =>
             /\ sem' = sem
             /\ workers'[Len(workers')].pc = "queued"
             /\ \A w \in WorkerIds : workers'[w] = workers[w]]_vars

\* Both tokens are held by walking workers and a third scrape is queued
C31_Witness ==
    /\ sem = SemCapacity
    /\ Len(workers) = 3
    /\ workers[3].pc = "queued"
    /\ \A w \in {1, 2} : workers[w].pc \notin {"queued", "release", "pushFinal", "done"}

\* C32: with every goroutine scheduled, an accepted scrape ends: its worker
\* gets a token, runs to its end, and the registry holds a terminal status
\* for its root.
C32_AcceptedScrapeEnds ==
    \A w \in 1..Cardinality(RunningRoots) :
        (Len(workers) >= w) ~>
            /\ Len(workers) >= w
            /\ workers[w].pc = "done"
            /\ workers[w].scr.RootDir \in DOMAIN scrapes
            /\ scrapes[workers[w].scr.RootDir].Status \in TerminalStatuses

\* Three scrapes were accepted, all workers have ended and the registry
\* holds a terminal status for each root
C32_Witness ==
    /\ Len(workers) = Cardinality(RunningRoots)
    /\ \A w \in WorkerIds :
          /\ workers[w].pc = "done"
          /\ workers[w].scr.RootDir \in DOMAIN scrapes
          /\ scrapes[workers[w].scr.RootDir].Status \in TerminalStatuses

\* C33: however first calls of Start interleave, one manage goroutine with
\* one registry is started, and every Start, Stop and Status request is
\* taken by that goroutine.
C33_OneManager ==
    /\ Cardinality(ctl.managers) <= 1
    /\ \A p, q \in ctl.served : p.by = q.by

\* C34: what StatusAll returns is the registry as it is at one moment: one
\* snapshot for every record, each equal to the record of its root.
C34_StatusAllIsOneState ==
    (lastStatus.called /\ lastStatus.all) =>
        /\ ~lastStatus.panic
        /\ lastStatus.ret = {scrapes[k] : k \in DOMAIN scrapes}
        /\ Cardinality(lastStatus.ret) = Cardinality(DOMAIN scrapes)
        /\ \A k \in DOMAIN scrapes : Cardinality({v \in lastStatus.ret : v.RootDir = k}) = 1

\* StatusAll has returned the snapshots of two scrapes, one ended and one
\* running
C34_Witness ==
    /\ lastStatus.called
    /\ lastStatus.all
    /\ Cardinality(lastStatus.ret) = 2
    /\ \E v \in lastStatus.ret : v.Status = StatusRunning
    /\ \E v \in lastStatus.ret : v.Status \in TerminalStatuses

\* C35: the step that writes a file to the catalog, when the write goes
\* well, adds one to exactly one of NumNewFiles and NumUpdatedFiles, to
\* NumNewFiles iff the lookup found no record of the hash, and the catalog
\* then holds the record of that hash; when the write fails nothing is
\* counted. The lookup step notes whether the catalog has the hash. This
\* holds also for two scrapes that find copies of one video at once.
C35_OneCounterPerFile ==
    [][\A w \in WorkerIds :
          /\ (workers[w].pc = "scrape" /\ workers'[w].pc = "store") =>
                workers'[w].exists = (workers'[w].vid[1].SHA512 \in DOMAIN catalog)
          /\ (workers[w].pc = "store" /\ workers'[w].pc = "pushCount") =>
                /\ workers'[w].scr.NumNewFiles =
                      workers[w].scr.NumNewFiles + (IF workers[w].exists THEN 0 ELSE 1)
                /\ workers'[w].scr.NumUpdatedFiles =
                      workers[w].scr.NumUpdatedFiles + (IF workers[w].exists THEN 1 ELSE 0)
                /\ workers[w].vid[1].SHA512 \in DOMAIN catalog'
                /\ catalog'[workers[w].vid[1].SHA512].SHA512 = workers[w].vid[1].SHA512
                /\ DOMAIN catalog' = DOMAIN catalog \cup {workers[w].vid[1].SHA512}
          /\ (workers[w].pc = "store" /\ workers'[w].pc \notin {"store", "pushCount"}) =>
                /\ workers'[w].scr.NumNewFiles = workers[w].scr.NumNewFiles
                /\ workers'[w].scr.NumUpdatedFiles = workers[w].scr.NumUpdatedFiles
                /\ catalog' = catalog]_vars

\* Two scrapes looked the same hash up before either wrote it: one has
\* created the record and counts a new file, the other was refused by the
\* catalog and counts nothing
C35_Witness ==
    /\ DOMAIN catalog = {"h3"}
    /\ \E v, w \in WorkerIds :
          /\ workers[v].pc = "done" /\ workers[w].pc = "done"
          /\ workers[v].scr.NumNewFiles = 1 /\ workers[v].scr.NumFiles = 1
          /\ workers[w].scr.RootDir = PathAX
          /\ workers[w].scr.NumNewFiles = 0 /\ workers[w].scr.NumUpdatedFiles = 0
          /\ workers[w].scr.NumFiles = 0

\* C36: every record of the catalog the scraper has written has a hash and
\* a title that is not blank.
C36_RecordsHaveHashAndTitle ==
    \A h \in DOMAIN catalog : catalog[h].SHA512 # "" /\ ~IsBlank(catalog[h].Title)

\* The text fields of a video
TextFields ==
    {"Title", "Artist", "Language", "RelatedMedium", "MediumDetail", "Description", "Identifier"}

\* C37: for the file a worker scrapes, no scraping function of the pipeline
\* leaves a text field empty that the functions before it had set.
C37_PipelineIsAdditive ==
    \A w \in WorkerIds :
        workers[w].pc = "scrape" =>
            \A n \in 1..Len(DefaultFns) : \A f \in TextFields :
                RunFns(n - 1, workers[w].scr.CurrentFile)[f] # ""
                    => RunFns(n, workers[w].scr.CurrentFile)[f] # ""

\* C38: the main playlist never holds more entries of one address that is
\* not whitelisted than NumWishesFromSameIP, and, duplicate wishes being
\* disallowed, never the same video twice.
C38_WishLimitsHold ==
    /\ \A ip \in GuestIPs :
          ~IsWhitelisted(ip) => GetEntryCountByIP(playlist, ip) <= NumWishesFromSameIP
    /\ ~AllowDuplicateWishes =>
          \A v \in WishVideos : GetEntryCountByVideo(playlist, v) <= 1

\* GetByID has just answered and the caller has not touched the answer
FreshGet == lastSession.called = "get" /\ "edited" \notin DOMAIN lastSession

\* C39: a session GetByID returns has not expired, was not deleted and equals
\* the stored one; when GetByID reports that the session does not exist it
\* is not stored (an expired one has been removed); a caller's write to the
\* session it was handed leaves the stored sessions as they are.
C39_NoExpiredSessionReturned ==
    /\ [](FreshGet /\ ~lastSession.err =>
            /\ lastSession.session[1].ExpiresAt >= now
            /\ lastSession.id \notin gone
            /\ lastSession.id \in DOMAIN sessions
            /\ sessions[lastSession.id] = lastSession.session[1])
    /\ [](FreshGet /\ lastSession.err => lastSession.id \notin DOMAIN sessions)
    /\ []((lastSession.called = "get" /\ lastSession.id \in gone) => lastSession.err)
    /\ [][("edited" \in DOMAIN lastSession' /\ "edited" \notin DOMAIN lastSession)
              => sessions' = sessions]_vars

\* GetByID has reported a session as not existing that was created, never
\* deleted, and has expired
C39_Witness ==
    /\ FreshGet
    /\ lastSession.err
    /\ lastSession.id <= made
    /\ lastSession.id \notin gone
    /\ now > SessionLife

====
